---- MODULE Spec2Model ----
(***************************************************************************)
(* A model of the two cylinder-wake programs of the repository:            *)
(*   - the parameter-estimation script (src/unnamed/part_000): file         *)
(*     handling, data loading, time derivatives, estimate_C1_C2 and the     *)
(*     noise sweep with its output table;                                   *)
(*   - load_data and the column split of main in the field-reconstruction   *)
(*     notebook (src/CylinderWake_NN.ipynb).                                *)
(*                                                                         *)
(* Floating-point numbers are fixed-point integers: a field value v is the  *)
(* integer v*Unit, a coordinate x is x*CoordScale, a time t is t*TimeScale  *)
(* and a noise level is eta*NoiseScale.  A division rounds (to the integer  *)
(* below), as a floating-point division rounds to a representable number.   *)
(* np.nan is the value NaN, which every arithmetic operation propagates.    *)
(*                                                                         *)
(* The datasets are small: a few snapshots on a lattice of a few nodes.    *)
(* grid_size, 100 in the script, is the size of that lattice, so that the  *)
(* window of the smoothing filter, min(15, (grid_size//4)*2+1), is either  *)
(* one the filter refuses (SmallGrid) or one it accepts (MaxGrid).         *)
(***************************************************************************)
EXTENDS Integers, Naturals, Sequences, FiniteSets, TLC

\* ------------------------------------------------------------ bounds
Unit == 10
CoordScale == 2
TimeScale == 10
\* the datasets: number of snapshots, grid sizes, seeds of the generator
MaxNT == 3
SmallGrid == 4
MaxGrid == 8
NumSeeds == 2

\* ------------------------------------------------------------ numbers
NoiseScale == 1000
NaN == -1000000000

IsNaN(a) == a = NaN

Add(a, b) == IF IsNaN(a) \/ IsNaN(b) THEN NaN ELSE a + b
Sub(a, b) == IF IsNaN(a) \/ IsNaN(b) THEN NaN ELSE a - b
Neg(a) == IF IsNaN(a) THEN NaN ELSE 0 - a
\* a*b of two field values
Mul(a, b) == IF IsNaN(a) \/ IsNaN(b) THEN NaN ELSE (a * b) \div Unit
\* num/den where den is a plain (unscaled) positive integer
DivBy(num, den) == IF IsNaN(num) THEN NaN ELSE num \div den

Abs(a) == IF a < 0 THEN 0 - a ELSE a

RECURSIVE SumFrom(_, _, _)
\* f[lo] + ... + f[hi]
SumFrom(f, lo, hi) ==
    IF lo > hi THEN 0
    ELSE IF lo = hi THEN f[lo]
    ELSE Add(SumFrom(f, lo, (lo + hi) \div 2),
             SumFrom(f, (lo + hi) \div 2 + 1, hi))

\* f[1] + ... + f[n]
SumTo(f, n) == SumFrom(f, 1, n)

\* the integer square root
ISqrt(n) == CHOOSE r \in 0..(n + 1) : r * r <= n /\ (r + 1) * (r + 1) > n

\* an array given by its entries: the function f, its values computed once
Array(f) == f @@ [e \in {} |-> 0]

\* ------------------------------------------------------------ python
\* a[i] of a sequence of length n: a negative index counts from the end
PyIndex(i, n) == IF i < 0 THEN i + n ELSE i
InRange(i, n) == PyIndex(i, n) >= 0 /\ PyIndex(i, n) < n
\* len(a) of an array indexed from 0
PyLen(a) == Cardinality(DOMAIN a)

\* ------------------------------------------------------------ the dataset file
\* A dataset file cylinder_nektar_wake.mat: the sample points are the nodes
\* (i, j), i + j >= cut, of a gs x gs lattice with origin (x0, y0) and spacings
\* (hx, hy): a lattice-convex set, every lattice node of its convex hull is a
\* sample.
Node(k, gs) == <<(k - 1) % gs, (k - 1) \div gs>>
Nodes(gs, cut) ==
    SelectSeq([k \in 1..(gs * gs) |-> Node(k, gs)],
              LAMBDA n : n[1] + n[2] >= cut)

FieldU(i, j, t, fam) == 8 + 2 * i + ((fam * j * j + 2 * t * i + j) % 5)
FieldV(i, j, t, fam) == ((i + 2 * j + t * (i + 1)) % 3) - 1 + fam
FieldP(i, j, t, fam) == 5 + ((i * j + t + fam * i) % 4)

MatFile(sc) ==
    LET nodes == Nodes(sc.gs, sc.cut)
        N == Len(nodes)
    IN [ X_star |-> [k \in 1..N |-> <<sc.x0 + nodes[k][1] * sc.hx,
                                      sc.y0 + nodes[k][2] * sc.hy>>],
         U_star |-> [k \in 1..N |->
                      [c \in 0..1 |->
                        [t \in 0..(sc.NT - 1) |->
                          IF c = 0
                          THEN FieldU(nodes[k][1], nodes[k][2], t, sc.fam)
                          ELSE FieldV(nodes[k][1], nodes[k][2], t, sc.fam)]]],
         p_star |-> [k \in 1..N |->
                      [t \in 0..(sc.NT - 1) |->
                          FieldP(nodes[k][1], nodes[k][2], t, sc.fam)]],
         t      |-> [n \in 0..(sc.NT - 1) |-> sc.t0 + n * sc.dt] ]

BaseScenario ==
    [ orig |-> FALSE, cur |-> TRUE, NT |-> 3, t0 |-> 5, dt |-> 5,
      gs |-> SmallGrid, cut |-> 0, x0 |-> 2, y0 |-> -2, hx |-> 1, hy |-> 2,
      fam |-> 0, seed |-> 0 ]

\* which of the two paths hold the file
FileScenarios ==
    { [BaseScenario EXCEPT !.orig = o, !.cur = c] : o \in BOOLEAN, c \in BOOLEAN }

\* the time axis: NT snapshots from t0, dt apart
TimeScenarios ==
    { [BaseScenario EXCEPT !.NT = n, !.t0 = a, !.dt = d] :
        n \in 1..MaxNT, a \in {0, 5, 8, 10}, d \in {4, 5} }

\* the geometry: grid size, hull, position of the cylinder, spacings
GeoScenarios ==
    { [BaseScenario EXCEPT !.gs = g, !.cut = c, !.x0 = x, !.y0 = x, !.hx = h,
                           !.hy = 1, !.fam = f] :
        g \in {SmallGrid, MaxGrid}, c \in {0, 2}, x \in {-2, 2},
        h \in {1, 2}, f \in {0, 1} }

\* the seed the generator starts from
SeedScenarios ==
    { [BaseScenario EXCEPT !.seed = s] : s \in 0..(NumSeeds - 1) }

\* the datasets the notebook is run on; its one path is the first of the two
NotebookScenarios ==
    { [BaseScenario EXCEPT !.orig = o, !.cur = FALSE, !.NT = n, !.t0 = a] :
        o \in BOOLEAN, n \in 1..MaxNT, a \in {0, 5, 10} }

Scenarios ==
    FileScenarios \cup TimeScenarios \cup GeoScenarios \cup SeedScenarios
        \cup NotebookScenarios

\* ------------------------------------------------------------ state
VARIABLES
    fs,          \* which of the two hardcoded paths hold the dataset file
    mat,         \* the content of the dataset file
    pc,          \* the position of the script
    MAT_PATH,    \* the path chosen
    stdout,      \* the lines printed
    exit_status, \* the exit status of the process, -1 while it runs
    made_dirs,   \* the directories created
    written,     \* the files written
    data,        \* what loadmat returned: X_star, U_star, p_star, t_all
    NT, dt,
    t_idx, ut_data, vt_data, u_data, v_data, p_data,
    reads,       \* the time indices read from U_star and p_star
    x, y,        \* the coordinates of the samples
    grid_size,   \* the grid size of the estimator
    rng,         \* the global random number generator
    eta_i,       \* the position of the loop in noise_levels
    C1s, C2s, rows,
    call,        \* the last call of estimate_C1_C2: what it computed
    csv,         \* the content of parameter_results.csv
    nb           \* the notebook: what load_data returned and main derived

vars == <<fs, mat, pc, MAT_PATH, stdout, exit_status, made_dirs, written,
          data, NT, dt, t_idx, ut_data, vt_data, u_data, v_data, p_data, reads,
          x, y, grid_size, rng, eta_i, C1s, C2s, rows, call, csv, nb>>

NoData == [X_star |-> <<>>, U_star |-> <<>>, p_star |-> <<>>, t |-> <<>>]

NoNotebook ==
    [ t_idx |-> 0, X |-> <<>>, Y |-> <<>>, x |-> <<>>, y |-> <<>>,
      p_true |-> <<>>, u_pred |-> [field |-> "", t |-> 0],
      v_pred |-> [field |-> "", t |-> 0], p_pred |-> [field |-> "", t |-> 0] ]

\* the script, or the notebook on one of its datasets
Init ==
    \E sc \in Scenarios, start \in {"file_handling", "nb_main"} :
        /\ start = "nb_main" => sc \in NotebookScenarios
        /\ fs = [orig |-> sc.orig, cur |-> sc.cur]
        /\ mat = MatFile(sc)
        /\ pc = start
        /\ nb = NoNotebook
        /\ MAT_PATH = ""
        /\ stdout = <<>>
        /\ exit_status = -1
        /\ made_dirs = {}
        /\ written = {}
        /\ data = NoData
        /\ NT = 0
        /\ dt = 0
        /\ t_idx = 0
        /\ ut_data = <<>>
        /\ vt_data = <<>>
        /\ u_data = <<>>
        /\ v_data = <<>>
        /\ p_data = <<>>
        /\ reads = {}
        /\ x = <<>>
        /\ y = <<>>
        /\ grid_size = sc.gs
        /\ rng = [seed |-> sc.seed, pos |-> 0]
        /\ eta_i = 0
        /\ C1s = <<>>
        /\ C2s = <<>>
        /\ rows = <<>>
        /\ call = [made |-> FALSE]
        /\ csv = <<>>

\* ------------------------------------------------------------ file handling
ORIGINAL_PATH == "C:\\Users\\sauja\\Downloads\\cylinder_nektar_wake.mat"
CURRENT_DIR_PATH == "cylinder_nektar_wake.mat"
OUTPUT_DIR == "parameter_results"

\* the chain without its elif branch: only the first path is tried
SelectPathFirstOnly(files) == IF files.orig THEN ORIGINAL_PATH ELSE ""

\* the path the if/elif chain selects, "" when it reaches the else branch
SelectPath(files) ==
    IF files.orig THEN ORIGINAL_PATH
    ELSE IF files.cur THEN CURRENT_DIR_PATH
    ELSE ""

FileHandling ==
    /\ pc = "file_handling"
    /\ IF SelectPath(fs) # ""
       THEN /\ MAT_PATH' = SelectPath(fs)
            /\ pc' = "makedirs"
            /\ UNCHANGED <<stdout, exit_status>>
       ELSE /\ stdout' = Append(stdout, "ERROR: Data file not found.")
            /\ exit_status' = 1
            /\ pc' = "exited"
            /\ UNCHANGED MAT_PATH
    /\ UNCHANGED <<fs, mat, made_dirs, written, data, NT, dt, t_idx, ut_data,
                   vt_data, u_data, v_data, p_data, reads, x, y, grid_size,
                   rng, eta_i, C1s, C2s, rows, call, csv, nb>>

MakeDirs ==
    /\ pc = "makedirs"
    /\ made_dirs' = made_dirs \cup {OUTPUT_DIR}
    /\ pc' = "load"
    /\ UNCHANGED <<fs, mat, MAT_PATH, stdout, exit_status, written, data, NT,
                   dt, t_idx, ut_data, vt_data, u_data, v_data, p_data, reads,
                   x, y, grid_size, rng, eta_i, C1s, C2s, rows, call, csv, nb>>

\* ------------------------------------------------------------ data loading
\* loadmat and the lines after it; t_all[1] raises IndexError when NT = 1
LoadData ==
    /\ pc = "load"
    /\ data' = mat
    /\ x' = [k \in DOMAIN mat.X_star |-> mat.X_star[k][1]]
    /\ y' = [k \in DOMAIN mat.X_star |-> mat.X_star[k][2]]
    /\ NT' = PyLen(mat.t)
    /\ IF PyLen(mat.t) >= 2
       THEN /\ dt' = mat.t[1] - mat.t[0]
            /\ stdout' = Append(stdout, "Loaded snapshots")
            /\ pc' = "derivatives"
            /\ UNCHANGED exit_status
       ELSE /\ dt' = dt
            /\ stdout' = Append(stdout, "IndexError")
            /\ exit_status' = 1
            /\ pc' = "crashed"
    /\ UNCHANGED <<fs, mat, MAT_PATH, made_dirs, written, t_idx, ut_data,
                   vt_data, u_data, v_data, p_data, reads, grid_size, rng,
                   eta_i, C1s, C2s, rows, call, csv, nb>>

\* ------------------------------------------------------------ time derivatives
target_t == TimeScale

\* np.argmin(np.abs(a - target)): the first index of the least distance
ArgMinAbs(a, target) ==
    CHOOSE i \in DOMAIN a :
        /\ \A j \in DOMAIN a : Abs(a[i] - target) <= Abs(a[j] - target)
        /\ \A j \in DOMAIN a : j < i => Abs(a[j] - target) > Abs(a[i] - target)

\* U_star[:, c, t] and p_star[:, t]
USlice(U, c, t, nt) == [k \in DOMAIN U |-> U[k][c][PyIndex(t, nt)]]
PSlice(P, t, nt) == [k \in DOMAIN P |-> P[k][PyIndex(t, nt)]]

\* the difference quotient over a single step dt, whatever m is
DiffQuotOneStep(a, b, m, step) ==
    [k \in DOMAIN a |-> ((a[k] - b[k]) * TimeScale) \div step]

\* (a - b) / (m*dt) of two arrays, dt a time step
DiffQuot(a, b, m, step) ==
    [k \in DOMAIN a |-> ((a[k] - b[k]) * TimeScale) \div (m * step)]

\* lines 39-58: the index nearest target_t, the time derivatives of u and v
\* there, the snapshot there, and the time indices read on the way
TimeDerivativeBlock(U, P, t_all, nt, step) ==
    LET ti == ArgMinAbs(t_all, target_t)
        snapshot == [ t_idx |-> ti,
                      u_data |-> USlice(U, 0, ti, nt),
                      v_data |-> USlice(U, 1, ti, nt),
                      p_data |-> PSlice(P, ti, nt) ]
    IN  IF 0 < ti /\ ti < nt - 1
        THEN snapshot @@
             [ ut_data |-> DiffQuot(USlice(U, 0, ti + 1, nt),
                                    USlice(U, 0, ti - 1, nt), 2, step),
               vt_data |-> DiffQuot(USlice(U, 1, ti + 1, nt),
                                    USlice(U, 1, ti - 1, nt), 2, step),
               reads   |-> {ti - 1, ti + 1, ti} ]
        ELSE IF ti = 0
        THEN snapshot @@
             [ ut_data |-> DiffQuot(USlice(U, 0, 1, nt), USlice(U, 0, ti, nt),
                                    1, step),
               vt_data |-> DiffQuot(USlice(U, 1, 1, nt), USlice(U, 1, ti, nt),
                                    1, step),
               reads   |-> {ti, 1} ]
        ELSE snapshot @@
             [ ut_data |-> DiffQuot(USlice(U, 0, ti, nt), USlice(U, 0, -2, nt),
                                    1, step),
               vt_data |-> DiffQuot(USlice(U, 1, ti, nt), USlice(U, 1, -2, nt),
                                    1, step),
               reads   |-> {ti, PyIndex(-2, nt)} ]

TimeDerivatives ==
    /\ pc = "derivatives"
    /\ LET r == TimeDerivativeBlock(data.U_star, data.p_star, data.t, NT, dt)
       IN /\ t_idx' = r.t_idx
          /\ ut_data' = r.ut_data
          /\ vt_data' = r.vt_data
          /\ u_data' = r.u_data
          /\ v_data' = r.v_data
          /\ p_data' = r.p_data
          /\ reads' = r.reads
    /\ pc' = "sweep"
    /\ UNCHANGED <<fs, mat, MAT_PATH, stdout, exit_status, made_dirs, written,
                   data, NT, dt, x, y, grid_size, rng, eta_i, C1s, C2s, rows,
                   call, csv, nb>>

\* ------------------------------------------------------------ random numbers
\* The global generator of np.random: a seed and the number of values drawn.
\* The c-th value of the stream of a seed:
Normal(seed, c) == (((c * c) \div 7 + c * (seed + 2)) % 5) - 2

\* n values read off the stream without advancing the generator
RandnPeek(g, n) ==
    [ draws |-> Array([k \in 1..n |-> Normal(g.seed, g.pos + k)]),
      rng   |-> g ]

\* np.random.randn(n): the n next values of the stream, and the generator after
Randn(g, n) ==
    [ draws |-> Array([k \in 1..n |-> Normal(g.seed, g.pos + k)]),
      rng   |-> [g EXCEPT !.pos = g.pos + n] ]

\* ------------------------------------------------------------ numpy
Mean(f) == SumTo(f, Len(f)) \div Len(f)

\* np.std(f): the population standard deviation
Std(f) ==
    LET m == Mean(f)
        sq == [k \in 1..Len(f) |-> (f[k] - m) * (f[k] - m)]
    IN  ISqrt(SumTo(sq, Len(f)) \div Len(f))

MinOf(f) == CHOOSE a \in {f[k] : k \in DOMAIN f} : \A k \in DOMAIN f : a <= f[k]
MaxOf(f) == CHOOSE a \in {f[k] : k \in DOMAIN f} : \A k \in DOMAIN f : a >= f[k]

\* np.linspace(a, b, n), indexed from 0
linspace(a, b, n) ==
    Array([i \in 0..(n - 1) |-> a + (i * (b - a)) \div (n - 1)])

\* f + sigma*draws: the noise not scaled by the noise level
AddNoiseUnscaled(f, noise_level, sigma, draws) ==
    Array([k \in 1..Len(f) |-> f[k] + sigma * draws[k]])

\* f + noise_level*sigma*draws
AddNoise(f, noise_level, sigma, draws) ==
    Array([k \in 1..Len(f) |->
              f[k] + (noise_level * sigma * draws[k]) \div NoiseScale])

\* ------------------------------------------------------------ to_grid
\* a grid Z is indexed Z[r][c]: r the row (y, axis 0), c the column (x, axis 1)

\* the sample at each grid node, 0 where there is none
Locate(xs, ys, xg, yg) ==
    Array([r \in DOMAIN yg |-> Array([c \in DOMAIN xg |->
        IF \E k \in DOMAIN xs : xs[k] = xg[c] /\ ys[k] = yg[r]
        THEN CHOOSE k \in DOMAIN xs : xs[k] = xg[c] /\ ys[k] = yg[r]
        ELSE 0])])

\* griddata((x, y), f, (Xg, Yg), method='linear') for samples that are the grid
\* nodes of their convex hull: the sample's value at a node of the hull, NaN at
\* a node outside it
griddata(loc, f) ==
    Array([r \in DOMAIN loc |-> Array([c \in DOMAIN loc[r] |->
        IF loc[r][c] = 0 THEN NaN ELSE f[loc[r][c]]])])

\* the cylinder: 0.25 is R2Num/R2Den
R2Num == 25
R2Den == 100
\* the closed disc: x^2 + y^2 <= 0.25
InCylinderClosed(xv, yv) ==
    R2Den * (xv * xv + yv * yv) <= R2Num * CoordScale * CoordScale

InCylinder(xv, yv) ==
    R2Den * (xv * xv + yv * yv) < R2Num * CoordScale * CoordScale

\* Z[(Xg**2 + Yg**2) < 0.25] = np.nan
MaskCylinder(Z, xg, yg) ==
    Array([r \in DOMAIN Z |-> Array([c \in DOMAIN Z[r] |->
        IF InCylinder(xg[c], yg[r]) THEN NaN ELSE Z[r][c]])])

to_grid(loc, f, xg, yg) == MaskCylinder(griddata(loc, f), xg, yg)

\* ------------------------------------------------------------ savgol_filter
PolyOrder == 3
MaxWindow == 15

Window(gsize) ==
    IF MaxWindow < (gsize \div 4) * 2 + 1 THEN MaxWindow
    ELSE (gsize \div 4) * 2 + 1

\* the argument checks of scipy.signal.savgol_filter (mode='interp')
SavgolRaises(win, polyorder, size) == polyorder >= win \/ win > size

\* The least-squares cubic through 5 points, times SGDen: row q is the fitted
\* value at the q-th point.  Row 3 is the filter's convolution; rows 1, 2 and
\* 4, 5 are the polynomial fitted to the first and to the last window.
SGDen == 70
SGCoef(win) ==
    CASE win = 5 -> << <<69, 4, -6, 4, -1>>, <<4, 54, 24, -16, 4>>,
                       <<-6, 24, 34, 24, -6>>, <<4, -16, 24, 54, 4>>,
                       <<-1, 4, -6, 4, 69>> >>

\* the filtered value at column c of a row of n values
SavgolAt(row, c, n, win) ==
    LET half == win \div 2
        start == IF c < half THEN 0
                 ELSE IF c > n - 1 - half THEN n - win
                 ELSE c - half
        coef == SGCoef(win)[c - start + 1]
        terms == [q \in 1..win |->
                    IF IsNaN(row[start + q - 1]) THEN NaN
                    ELSE coef[q] * row[start + q - 1]]
    IN  DivBy(SumTo(terms, win), SGDen)

\* savgol_filter(Z, win, polyorder): along the last axis; the exception raised
\* ("" for none) and the filtered grid
savgol_filter(Z, win, polyorder) ==
    LET n == PyLen(Z)
    IN  IF SavgolRaises(win, polyorder, n)
        THEN [exc |-> "ValueError", val |-> Z]
        ELSE [exc |-> "",
              val |-> Array([r \in DOMAIN Z |-> Array([c \in DOMAIN Z[r] |->
                          SavgolAt(Z[r], c, n, win)])])]

\* the i-th statement of the try block: Zs[i] = savgol_filter(Zs[i], win, 3)
SavgolCall(i, Zs, win) == savgol_filter(Zs[i], win, PolyOrder)

\* The statements of the try block from the i-th on, over the grids
\* <<Zu, Zv, Zp, Zut, Zvt>>.  A statement that raises ends the block and
\* assigns nothing.  sig is the statement during which the process receives
\* SIGINT (0: none), which raises KeyboardInterrupt there.
RECURSIVE SmoothFrom(_, _, _, _)
SmoothFrom(i, Zs, win, sig) ==
    IF i > Len(Zs) THEN [exc |-> "", Z |-> Zs]
    ELSE IF i = sig THEN [exc |-> "KeyboardInterrupt", Z |-> Zs]
    ELSE LET r == SavgolCall(i, Zs, win)
         IN  IF r.exc # "" THEN [exc |-> r.exc, Z |-> Zs]
             ELSE SmoothFrom(i + 1, [Zs EXCEPT ![i] = r.val], win, sig)

\* a bare except: every exception is swallowed
CaughtAny(exc) == exc # ""

\* except ValueError: pass
Caught(exc) == exc = "ValueError"

\* the try statement: what it raised, what leaves it, and the grids after it
TrySmooth(Zs, win, sig) ==
    LET r == SmoothFrom(1, Zs, win, sig)
    IN  [ raised |-> r.exc,
          exc    |-> IF Caught(r.exc) THEN "" ELSE r.exc,
          Z      |-> r.Z ]

\* ------------------------------------------------------------ np.gradient
\* d/(m*h) of a difference d of field values, h a grid spacing
SpaceQuot(d, m, h) == IF IsNaN(d) THEN NaN ELSE (d * CoordScale) \div (m * h)

\* np.gradient(Z, h, axis=1): central differences, one-sided at the two ends
GradientX(Z, h) ==
    LET n == PyLen(Z[0])
    IN  Array([r \in DOMAIN Z |-> Array([c \in DOMAIN Z[r] |->
            IF c = 0 THEN SpaceQuot(Sub(Z[r][1], Z[r][0]), 1, h)
            ELSE IF c = n - 1
            THEN SpaceQuot(Sub(Z[r][n - 1], Z[r][n - 2]), 1, h)
            ELSE SpaceQuot(Sub(Z[r][c + 1], Z[r][c - 1]), 2, h)])])

\* np.gradient(Z, h, axis=0)
GradientY(Z, h) ==
    LET n == PyLen(Z)
    IN  Array([r \in DOMAIN Z |-> Array([c \in DOMAIN Z[r] |->
            IF r = 0 THEN SpaceQuot(Sub(Z[1][c], Z[0][c]), 1, h)
            ELSE IF r = n - 1
            THEN SpaceQuot(Sub(Z[n - 1][c], Z[n - 2][c]), 1, h)
            ELSE SpaceQuot(Sub(Z[r + 1][c], Z[r - 1][c]), 2, h)])])

\* ------------------------------------------------------------ estimate_C1_C2
\* lines 62-81: the noise, the grid and the five gridded fields, in the order
\* <<u, v, p, ut, vt>>; g is the generator before the call
NoiseAndGrid(xs, ys, u, v, p, ut, vt, noise_level, g, gsize) ==
    LET sigma_u == Std(u)
        sigma_v == Std(v)
        d1 == Randn(g, Len(u))
        d2 == Randn(d1.rng, Len(v))
        d3 == Randn(d2.rng, Len(ut))
        d4 == Randn(d3.rng, Len(vt))
        u_noisy  == AddNoise(u, noise_level, sigma_u, d1.draws)
        v_noisy  == AddNoise(v, noise_level, sigma_v, d2.draws)
        ut_noisy == AddNoise(ut, noise_level, sigma_u, d3.draws)
        vt_noisy == AddNoise(vt, noise_level, sigma_v, d4.draws)
        p_clean  == p
        noisy == <<u_noisy, v_noisy, p_clean, ut_noisy, vt_noisy>>
        xg == linspace(MinOf(xs), MaxOf(xs), gsize)
        yg == linspace(MinOf(ys), MaxOf(ys), gsize)
        loc == Locate(xs, ys, xg, yg)
    IN  [ sigma_u |-> sigma_u,
          sigma_v |-> sigma_v,
          draws   |-> <<d1.draws, d2.draws, d3.draws, d4.draws>>,
          noisy   |-> noisy,
          xg      |-> xg,
          yg      |-> yg,
          G       |-> Array([i \in 1..5 |-> griddata(loc, noisy[i])]),
          Z0      |-> Array([i \in 1..5 |-> to_grid(loc, noisy[i], xg, yg)]),
          rng     |-> d4.rng,
          inputs  |-> [x |-> xs, y |-> ys, u |-> u, v |-> v, p |-> p,
                       ut |-> ut, vt |-> vt] ]

\* the cells the validity mask keeps, in row-major order
MaskCells(Zu) ==
    LET n == PyLen(Zu)
    IN  SelectSeq([k \in 1..(n * n) |-> <<(k - 1) \div n, (k - 1) % n>>],
                  LAMBDA rc : ~IsNaN(Zu[rc[1]][rc[2]]))

\* lines 93-117: the derivatives and the system (A, b) over the masked cells
Assemble(Z, xg, yg) ==
    LET Zu == Z[1]
        Zv == Z[2]
        Zp == Z[3]
        Zut == Z[4]
        Zvt == Z[5]
        dx == xg[1] - xg[0]
        dy == yg[1] - yg[0]
        dudy == GradientY(Zu, dy)
        dudx == GradientX(Zu, dx)
        dvdy == GradientY(Zv, dy)
        dvdx == GradientX(Zv, dx)
        dpdy == GradientY(Zp, dy)
        dpdx == GradientX(Zp, dx)
        d2udx2 == GradientX(dudx, dx)
        d2udy2 == GradientY(dudy, dy)
        d2vdx2 == GradientX(dvdx, dx)
        d2vdy2 == GradientY(dvdy, dy)
        cells == MaskCells(Zu)
        m == Len(cells)
        At(F, q) == F[cells[q][1]][cells[q][2]]
        conv_u == Array([q \in 1..m |-> Add(Mul(At(Zu, q), At(dudx, q)),
                                            Mul(At(Zv, q), At(dudy, q)))])
        diff_u == Array([q \in 1..m |-> Add(At(d2udx2, q), At(d2udy2, q))])
        conv_v == Array([q \in 1..m |-> Add(Mul(At(Zu, q), At(dvdx, q)),
                                            Mul(At(Zv, q), At(dvdy, q)))])
        diff_v == Array([q \in 1..m |-> Add(At(d2vdx2, q), At(d2vdy2, q))])
    IN  [ cells |-> cells,
          A |-> Array([q \in 1..(2 * m) |->
                   IF q <= m THEN <<conv_u[q], Neg(diff_u[q])>>
                   ELSE <<conv_v[q - m], Neg(diff_v[q - m])>>]),
          b |-> Array([q \in 1..(2 * m) |->
                   IF q <= m THEN Sub(Neg(At(dpdx, q)), At(Zut, q))
                   ELSE Sub(Neg(At(dpdy, q - m)), At(Zvt, q - m))]) ]

\* lines 119-120: the two prior rows, C1 near 1.0 and C2 near 0.01
Augment(sys) ==
    [ A |-> sys.A \o << <<Unit, 0>>, <<0, Unit>> >>,
      b |-> sys.b \o <<Unit, Unit \div 100>> ]

HasNaN(A, b) ==
    \/ \E q \in DOMAIN A : IsNaN(A[q][1]) \/ IsNaN(A[q][2])
    \/ \E q \in DOMAIN b : IsNaN(b[q])

MaxAbs(S) == CHOOSE a \in {Abs(e) : e \in S} : \A e \in S : a >= Abs(e)

\* np.linalg.lstsq(A, b)[0] of a system without NaN: the solution of the
\* normal equations, their entries scaled together into GramLimit
GramLimit == 8000
lstsq(A, b) ==
    LET m == Len(A)
        S11 == SumTo([q \in 1..m |-> A[q][1] * A[q][1]], m)
        S12 == SumTo([q \in 1..m |-> A[q][1] * A[q][2]], m)
        S22 == SumTo([q \in 1..m |-> A[q][2] * A[q][2]], m)
        R1  == SumTo([q \in 1..m |-> A[q][1] * b[q]], m)
        R2  == SumTo([q \in 1..m |-> A[q][2] * b[q]], m)
        K   == 1 + MaxAbs({S11, S12, S22, R1, R2}) \div GramLimit
        G11 == S11 \div K
        G12 == S12 \div K
        G22 == S22 \div K
        r1  == R1 \div K
        r2  == R2 \div K
        det == G11 * G22 - G12 * G12
    IN  << ((G22 * r1 - G12 * r2) * Unit) \div det,
           ((G11 * r2 - G12 * r1) * Unit) \div det >>

\* What lstsq does with a system: on NaN entries LAPACK either fails to
\* converge (LinAlgError) or returns NaN, by the build.
LstsqOutcomes(A, b) == IF HasNaN(A, b) THEN {"LinAlgError", "nan"} ELSE {"ok"}

\* What the call has computed when the try statement is left: pre from lines
\* 62-81, sm from the try statement, sys from lines 93-117 (not reached when an
\* exception leaves the try statement)
BodyRecord(pre, sm, sys, noise_level, g) ==
    [ made |-> TRUE, noise_level |-> noise_level, rng_before |-> g,
      raised |-> sm.raised, exc |-> sm.exc, Z |-> sm.Z,
      A |-> sys.A, b |-> sys.b, cells |-> sys.cells ] @@ pre

AfterSmooth(pre, sm, noise_level, g) ==
    BodyRecord(pre, sm,
               IF sm.exc # "" THEN [cells |-> <<>>, A |-> <<>>, b |-> <<>>]
               ELSE Assemble(sm.Z, pre.xg, pre.yg),
               noise_level, g)

AfterGrid(pre, win, sig, noise_level, g) ==
    AfterSmooth(pre, TrySmooth(pre.Z0, win, sig), noise_level, g)

\* estimate_C1_C2(x, y, u, v, p, ut, vt, noise_level) up to the call of lstsq,
\* in generator state g and with SIGINT during statement sig of the try block:
\* the exception that leaves the try statement ("" for none), the system, the
\* generator and the argument arrays after the call, and what was computed
EstimatorBody(xs, ys, u, v, p, ut, vt, noise_level, g, gsize, sig) ==
    AfterGrid(NoiseAndGrid(xs, ys, u, v, p, ut, vt, noise_level, g, gsize),
              Window(gsize), sig, noise_level, g)

\* the value returned: sol when no exception leaves the call
Returned(body, exc, sol) ==
    [ exc |-> exc,
      C1 |-> IF exc # "" THEN NaN ELSE sol[1],
      C2 |-> IF exc # "" THEN NaN ELSE sol[2] ] @@ body

Solve(aug, outcome) ==
    IF outcome = "ok" THEN lstsq(aug.A, aug.b) ELSE <<NaN, NaN>>

\* lines 119-123: the solve and the return, lstsq behaving as outcome
estimate_C1_C2(body, outcome) ==
    IF body.exc # "" THEN Returned(body, body.exc, <<NaN, NaN>>)
    ELSE Returned(body, IF outcome = "LinAlgError" THEN outcome ELSE "",
                  Solve(Augment(body), outcome))

\* ------------------------------------------------------------ the noise sweep
noise_levels == <<0, 10, 50, 100, 200, 500, 600, 750, 900>>
trials == 5

\* f"{eta*100:.1f}%": the percentage and its first decimal
Label(eta) == <<(eta * 100) \div NoiseScale, ((eta * 1000) \div NoiseScale) % 10>>

\* the last value of a list in place of its mean
LastOf(l) == l[Len(l)]

\* np.mean of a list
MeanOf(l) == DivBy(SumTo(l, Len(l)), Len(l))

\* the exit status of a process that an uncaught exception ends
ExitStatusOf(exc) == IF exc = "KeyboardInterrupt" THEN 130 ELSE 1

\* lines 126-130
StartSweep ==
    /\ pc = "sweep"
    /\ rows' = <<>>
    /\ eta_i' = 1
    /\ stdout' = Append(stdout, "Estimating C1,C2 across noise levels...")
    /\ pc' = "level"
    /\ UNCHANGED <<fs, mat, MAT_PATH, exit_status, made_dirs, written, data,
                   NT, dt, t_idx, ut_data, vt_data, u_data, v_data, p_data,
                   reads, x, y, grid_size, rng, C1s, C2s, call, csv, nb>>

\* line 131-132: the next noise level, or the end of the loop
NextLevel ==
    /\ pc = "level"
    /\ IF eta_i <= Len(noise_levels)
       THEN /\ C1s' = <<>>
            /\ C2s' = <<>>
            /\ pc' = "trial"
       ELSE /\ pc' = "table"
            /\ UNCHANGED <<C1s, C2s>>
    /\ UNCHANGED <<fs, mat, MAT_PATH, stdout, exit_status, made_dirs, written,
                   data, NT, dt, t_idx, ut_data, vt_data, u_data, v_data,
                   p_data, reads, x, y, grid_size, rng, eta_i, rows, call, csv, nb>>

\* lines 133-138: the script after a call that ended as r
AfterCall(r) ==
    /\ call' = r
    /\ rng' = r.rng
    /\ x' = r.inputs.x
    /\ y' = r.inputs.y
    /\ u_data' = r.inputs.u
    /\ v_data' = r.inputs.v
    /\ p_data' = r.inputs.p
    /\ ut_data' = r.inputs.ut
    /\ vt_data' = r.inputs.vt
    /\ IF r.exc # ""
       THEN /\ stdout' = Append(stdout, r.exc)
            /\ exit_status' = ExitStatusOf(r.exc)
            /\ pc' = "crashed"
            /\ UNCHANGED <<C1s, C2s>>
       ELSE /\ C1s' = Append(C1s, r.C1)
            /\ C2s' = Append(C2s, r.C2)
            /\ pc' = IF Len(C1s) + 1 = trials THEN "row" ELSE "trial"
            /\ UNCHANGED <<stdout, exit_status>>

\* lines 133-138: one trial
Trial ==
    /\ pc = "trial"
    /\ \E sig \in 0..5 :
         \E body \in { EstimatorBody(x, y, u_data, v_data, p_data, ut_data,
                                     vt_data, noise_levels[eta_i], rng,
                                     grid_size, sig) } :
           \E outcome \in LstsqOutcomes(body.A, body.b) :
             \E r \in { estimate_C1_C2(body, outcome) } : AfterCall(r)
    /\ UNCHANGED <<fs, mat, MAT_PATH, made_dirs, written, data, NT, dt, t_idx,
                   reads, grid_size, eta_i, rows, csv, nb>>

\* lines 139-144
EndLevel ==
    /\ pc = "row"
    /\ rows' = Append(rows, [ Noise_Level |-> Label(noise_levels[eta_i]),
                              C1_Mean |-> MeanOf(C1s),
                              C2_Mean |-> MeanOf(C2s) ])
    /\ stdout' = Append(stdout, "Noise")
    /\ eta_i' = eta_i + 1
    /\ pc' = "level"
    /\ UNCHANGED <<fs, mat, MAT_PATH, exit_status, made_dirs, written, data,
                   NT, dt, t_idx, ut_data, vt_data, u_data, v_data, p_data,
                   reads, x, y, grid_size, rng, C1s, C2s, call, csv, nb>>

\* lines 147-153: the table, printed and written as CSV
OutputTable ==
    /\ pc = "table"
    /\ stdout' = Append(stdout, "RESULTS")
    /\ csv' = rows
    /\ written' = written \cup {"parameter_results.csv"}
    /\ pc' = "image"
    /\ UNCHANGED <<fs, mat, MAT_PATH, exit_status, made_dirs, data, NT, dt,
                   t_idx, ut_data, vt_data, u_data, v_data, p_data, reads, x,
                   y, grid_size, rng, eta_i, C1s, C2s, rows, call, nb>>

\* lines 156-177: the table image
SaveImage ==
    /\ pc = "image"
    /\ written' = written \cup {"noise_table.png"}
    /\ stdout' = Append(stdout, "Done.")
    /\ exit_status' = 0
    /\ pc' = "done"
    /\ UNCHANGED <<fs, mat, MAT_PATH, made_dirs, data, NT, dt, t_idx, ut_data,
                   vt_data, u_data, v_data, p_data, reads, x, y, grid_size,
                   rng, eta_i, C1s, C2s, rows, call, csv, nb>>

\* ------------------------------------------------------------ the notebook
\* A two-dimensional array is the sequence of its columns; a column carries
\* the field and the time index its values come from.

\* U_star[:, c] of the (N, 2, NT) array: an (N, NT) array
FieldColumns(U, c, name) ==
    [t \in 1..PyLen(U[1][c]) |->
        [ field |-> name, t |-> t - 1,
          vals |-> [k \in DOMAIN U |-> U[k][c][t - 1]] ]]

\* p_star[:, t_idx].flatten(): one column
PressureColumn(P, ti) ==
    << [ field |-> "p", t |-> ti, vals |-> [k \in DOMAIN P |-> P[k][ti]] ] >>

\* np.column_stack of a sequence of arrays
RECURSIVE column_stack(_)
column_stack(arrays) ==
    IF arrays = <<>> THEN <<>>
    ELSE Head(arrays) \o column_stack(Tail(arrays))

\* Y_pred[:, j]: the column of Y it predicts, by field and time index
PredColumn(Y, j) == [field |-> Y[j + 1].field, t |-> Y[j + 1].t]

\* load_data(mat_path, target_t)
load_data(file, target) ==
    LET ti == ArgMinAbs(file.t, target)
        xs == [k \in DOMAIN file.X_star |-> file.X_star[k][1]]
        ys == [k \in DOMAIN file.X_star |-> file.X_star[k][2]]
        u == FieldColumns(file.U_star, 0, "u")
        v == FieldColumns(file.U_star, 1, "v")
        p == PressureColumn(file.p_star, ti)
        T == [k \in DOMAIN xs |-> target]
    IN  [ t_idx |-> ti,
          X |-> <<xs, ys, T>>,
          Y |-> column_stack(<<u, v, p>>),
          x |-> xs, y |-> ys, p_true |-> p[1].vals ]

\* main, lines 140-144: the output directory and load_data; loadmat raises
\* FileNotFoundError when the file is not at the notebook's one path
NbLoad ==
    /\ pc = "nb_main"
    /\ made_dirs' = made_dirs \cup {"~/Desktop/CFD_Results"}
    /\ IF fs.orig
       THEN /\ nb' = load_data(mat, target_t) @@ nb
            /\ pc' = "nb_fit"
            /\ UNCHANGED <<stdout, exit_status>>
       ELSE /\ stdout' = Append(stdout, "FileNotFoundError")
            /\ exit_status' = 1
            /\ pc' = "crashed"
            /\ UNCHANGED nb
    /\ UNCHANGED <<fs, mat, MAT_PATH, written, data, NT, dt, t_idx, ut_data,
                   vt_data, u_data, v_data, p_data, reads, x, y, grid_size,
                   rng, eta_i, C1s, C2s, rows, call, csv>>

\* main, lines 146-153: the network is fitted to the columns of Y and predicts
\* one column per column of Y; Y_pred[:, j] is the prediction of Y[:, j], so a
\* column read from Y_pred is named by the column of Y it predicts
NbFit ==
    /\ pc = "nb_fit"
    /\ nb' = [nb EXCEPT !.u_pred = PredColumn(nb.Y, 0),
                          !.v_pred = PredColumn(nb.Y, 1),
                          !.p_pred = PredColumn(nb.Y, 2)]
    /\ pc' = "nb_plots"
    /\ UNCHANGED <<fs, mat, MAT_PATH, stdout, exit_status, made_dirs, written,
                   data, NT, dt, t_idx, ut_data, vt_data, u_data, v_data,
                   p_data, reads, x, y, grid_size, rng, eta_i, C1s, C2s, rows,
                   call, csv>>

\* main, lines 155-168: the two figures
NbPlots ==
    /\ pc = "nb_plots"
    /\ written' = written \cup {"pressure_comparison.png", "velocity_field.png"}
    /\ stdout' = Append(stdout, "Results saved")
    /\ exit_status' = 0
    /\ pc' = "nb_done"
    /\ UNCHANGED <<fs, mat, MAT_PATH, made_dirs, data, NT, dt, t_idx, ut_data,
                   vt_data, u_data, v_data, p_data, reads, x, y, grid_size,
                   rng, eta_i, C1s, C2s, rows, call, csv, nb>>

Next ==
    \/ FileHandling
    \/ MakeDirs
    \/ LoadData
    \/ TimeDerivatives
    \/ StartSweep
    \/ NextLevel
    \/ Trial
    \/ EndLevel
    \/ OutputTable
    \/ SaveImage
    \/ NbLoad
    \/ NbFit
    \/ NbPlots

Spec == Init /\ [][Next]_vars

\* ------------------------------------------------------------ properties

\* the positions of the script once it has selected a path
AfterSelection ==
    {"makedirs", "load", "derivatives", "sweep", "level", "trial", "row",
     "table", "image", "done"}

\* C1: when the dataset file is at neither of the two paths the script prints
\* the error line and exits with status 1, having created no directory, loaded
\* no data, called the estimator never and written no file; when the file is
\* at one of the paths at least, that error exit is never taken.
C1_ErrorExit ==
    /\ pc = "exited" =>
         /\ ~fs.orig /\ ~fs.cur
         /\ exit_status = 1
         /\ stdout = <<"ERROR: Data file not found.">>
         /\ made_dirs = {} /\ written = {} /\ csv = <<>>
         /\ data = NoData /\ ~call.made
    /\ (~fs.orig /\ ~fs.cur) =>
         /\ pc \notin AfterSelection
         /\ OUTPUT_DIR \notin made_dirs /\ written = {}
         /\ data = NoData /\ ~call.made
    /\ (fs.orig \/ fs.cur) => pc # "exited"

C1_Witness == pc = "exited" /\ exit_status = 1 /\ ~fs.orig /\ ~fs.cur

\* C2: for NT >= 2, t_idx is an index of least |t_all[i] - target_t|; the time
\* derivatives of u and v are the centered quotient (U[t+1] - U[t-1])/(2 dt)
\* when 0 < t_idx < NT-1, the forward quotient (U[1] - U[0])/dt at t_idx = 0
\* and the backward quotient (U[NT-1] - U[NT-2])/dt at t_idx = NT-1; the
\* snapshot fields are taken at the same t_idx; no time index outside
\* 0..NT-1 is read.
C2_Derivatives ==
    (reads # {} /\ NT >= 2) =>
      LET U == data.U_star
          quot(d, m) == (d * TimeScale) \div (m * (data.t[1] - data.t[0]))
      IN  /\ t_idx \in 0..(NT - 1)
          /\ \A i \in 0..(NT - 1) :
                Abs(data.t[t_idx] - target_t) <= Abs(data.t[i] - target_t)
          /\ reads \subseteq 0..(NT - 1)
          /\ \A k \in DOMAIN U :
               /\ u_data[k] = U[k][0][t_idx]
               /\ v_data[k] = U[k][1][t_idx]
               /\ p_data[k] = data.p_star[k][t_idx]
               /\ \A c \in 0..1 :
                    LET d == IF c = 0 THEN ut_data[k] ELSE vt_data[k]
                    IN  IF 0 < t_idx /\ t_idx < NT - 1
                        THEN d = quot(U[k][c][t_idx + 1] - U[k][c][t_idx - 1], 2)
                        ELSE IF t_idx = 0
                        THEN d = quot(U[k][c][1] - U[k][c][0], 1)
                        ELSE d = quot(U[k][c][NT - 1] - U[k][c][NT - 2], 1)

C2_Witness ==
    /\ reads # {} /\ NT >= 3 /\ 0 < t_idx /\ t_idx < NT - 1
    /\ \E k \in DOMAIN ut_data : ut_data[k] # 0

\* the two one-sided cases of C2 are reached as well
C2_ForwardReached == reads # {} /\ NT >= 2 /\ t_idx = 0
C2_BackwardReached == reads # {} /\ NT >= 3 /\ t_idx = NT - 1

\* C3: load_data of the notebook returns a target matrix of exactly three
\* columns, u, v and p at the one time index t_idx nearest target_t, so that
\* the columns 0, 1, 2 main reads from the prediction are u, v and p of that
\* snapshot.
C3_ThreeColumns ==
    pc \in {"nb_fit", "nb_plots", "nb_done"} =>
        /\ Len(nb.Y) = 3
        /\ pc # "nb_fit" =>
             /\ nb.u_pred = [field |-> "u", t |-> nb.t_idx]
             /\ nb.v_pred = [field |-> "v", t |-> nb.t_idx]
             /\ nb.p_pred = [field |-> "p", t |-> nb.t_idx]

\* m is the mean of the list l of trials values
C4_IsMean(l, m) ==
    IF \E i \in DOMAIN l : IsNaN(l[i]) THEN IsNaN(m)
    ELSE LET sum == SumTo(l, Len(l))
         IN  Len(l) * m <= sum /\ sum < Len(l) * m + Len(l)

\* the label of the i-th noise level: its percentage with one decimal
C4_Label(i) == <<(noise_levels[i] * 100) \div NoiseScale,
                 ((noise_levels[i] * 1000) \div NoiseScale) % 10>>

C4_Rows ==
    /\ pc \in {"level", "trial", "row"} => Len(rows) = eta_i - 1
    /\ \A i \in DOMAIN rows : rows[i].Noise_Level = C4_Label(i)
    /\ "parameter_results.csv" \in written =>
         csv = rows /\ Len(csv) = Len(noise_levels)
    /\ pc = "row" => Len(C1s) = trials /\ Len(C2s) = trials
    /\ pc = "trial" => Len(C1s) < trials /\ Len(C2s) = Len(C1s)

C4_Step ==
    /\ (pc = "level" /\ pc' = "trial") => C1s' = <<>> /\ C2s' = <<>>
    /\ (pc = "trial" /\ pc' \in {"trial", "row"}) =>
         /\ call'.noise_level = noise_levels[eta_i]
         /\ C1s' = Append(C1s, call'.C1)
         /\ C2s' = Append(C2s, call'.C2)
    /\ pc = "row" =>
         /\ Len(rows') = Len(rows) + 1
         /\ rows'[Len(rows')].Noise_Level = C4_Label(eta_i)
         /\ C4_IsMean(C1s, rows'[Len(rows')].C1_Mean)
         /\ C4_IsMean(C2s, rows'[Len(rows')].C2_Mean)
         /\ \A i \in DOMAIN rows : rows'[i] = rows[i]
    /\ pc # "row" /\ pc # "sweep" => rows' = rows
    /\ csv' # csv => eta_i = Len(noise_levels) + 1

\* C4: the table and the CSV hold one row per noise level, in the order of
\* noise_levels, each labelled with its own level; the CSV is written only
\* after every level has been processed with exactly trials calls of the
\* estimator; the means of a row aggregate the estimates of that level only,
\* the accumulators being empty at the start of each level.
C4_Sweep == []C4_Rows /\ [][C4_Step]_vars

C4_Witness ==
    /\ pc = "done" /\ Len(csv) = Len(noise_levels)
    /\ ~IsNaN(csv[2].C1_Mean)
    /\ csv[1].C1_Mean # csv[Len(csv)].C1_Mean

\* C5: at noise level 0.0 the noisy fields are the clean fields and any two
\* calls of the estimator return the same (C1, C2), whatever the draws.
C5_NoiseFree ==
    (pc \in {"trial", "row"} /\ noise_levels[eta_i] = 0) =>
        /\ \A i, j \in DOMAIN C1s : C1s[i] = C1s[j] /\ C2s[i] = C2s[j]
        /\ (call.made /\ call.noise_level = 0) =>
             call.noisy = <<u_data, v_data, p_data, ut_data, vt_data>>

C5_Witness ==
    /\ pc \in {"trial", "row"} /\ noise_levels[eta_i] = 0
    /\ Len(C1s) >= 2 /\ ~IsNaN(C1s[1]) /\ ~IsNaN(C2s[1])
    /\ call.draws[1] # [k \in 1..Len(u_data) |-> Normal(rng.seed, k)]

\* C6: every entry of the system (A, b) passed to the least-squares solve is
\* not NaN: the mask taken from the gridded u excludes every cell at which a
\* term of a row is NaN.
C6_NoNaNInSystem ==
    call.made =>
        /\ \A q \in DOMAIN call.A : ~IsNaN(call.A[q][1]) /\ ~IsNaN(call.A[q][2])
        /\ \A q \in DOMAIN call.b : ~IsNaN(call.b[q])

\* r2 x (CoordScale)^2 x R2Den, for the squared distance r2 of a grid node
C7_Dist(xv, yv) == R2Den * (xv * xv + yv * yv)
C7_Radius == R2Num * CoordScale * CoordScale

\* C7 as amended: in every gridded field returned by to_grid, every grid
\* point with x^2 + y^2 < 0.25 is NaN, and the masking leaves every grid
\* point with x^2 + y^2 >= 0.25 as the interpolation gave it.
C7_OpenDisc ==
    call.made =>
        \A i \in 1..5 : \A r \in DOMAIN call.yg : \A c \in DOMAIN call.xg :
            IF C7_Dist(call.xg[c], call.yg[r]) < C7_Radius
            THEN IsNaN(call.Z0[i][r][c])
            ELSE call.Z0[i][r][c] = call.G[i][r][c]

\* C7: every grid point with x^2 + y^2 <= 0.25 is NaN in every gridded field
\* returned by to_grid.
C7_ClosedDisc ==
    call.made =>
        \A i \in 1..5 : \A r \in DOMAIN call.yg : \A c \in DOMAIN call.xg :
            C7_Dist(call.xg[c], call.yg[r]) <= C7_Radius =>
                IsNaN(call.Z0[i][r][c])

C7_Witness ==
    /\ call.made
    /\ \E r \in DOMAIN call.yg : \E c \in DOMAIN call.xg :
         /\ C7_Dist(call.xg[c], call.yg[r]) < C7_Radius
         /\ ~IsNaN(call.G[1][r][c]) /\ IsNaN(call.Z0[1][r][c])
    /\ \E r \in DOMAIN call.yg : \E c \in DOMAIN call.xg :
         /\ C7_Dist(call.xg[c], call.yg[r]) = C7_Radius
         /\ ~IsNaN(call.Z0[1][r][c])

\* C8 as amended: a call of the estimator leaves its input arrays and the
\* rest of the process state unchanged, except the global random number
\* generator, which it advances by the four arrays of draws it takes.
C8_CallEffects ==
    [][pc = "trial" =>
         /\ x' = x /\ y' = y /\ u_data' = u_data /\ v_data' = v_data
         /\ p_data' = p_data /\ ut_data' = ut_data /\ vt_data' = vt_data
         /\ fs' = fs /\ mat' = mat /\ data' = data /\ grid_size' = grid_size
         /\ made_dirs' = made_dirs /\ written' = written
         /\ rows' = rows /\ csv' = csv
         /\ rng'.seed = rng.seed
         /\ rng'.pos = rng.pos + 4 * Len(u_data)]_vars

\* C8: a call of the estimator leaves its inputs and all process-wide state
\* unchanged, the state of the global random number generator included.
C8_NothingCarried ==
    call.made =>
        /\ call.inputs = [x |-> x, y |-> y, u |-> u_data, v |-> v_data,
                          p |-> p_data, ut |-> ut_data, vt |-> vt_data]
        /\ rng = call.rng_before

\* two calls on the same arguments, at the same level, with different results
C8_Witness ==
    /\ pc = "trial" /\ Len(C1s) >= 2
    /\ ~IsNaN(C1s[1]) /\ ~IsNaN(C1s[2]) /\ C1s[1] # C1s[2]
    /\ rng.pos = call.rng_before.pos + 4 * Len(u_data)

\* f perturbed by noise_level x std(f) x draws
C9_Perturbed(f, noise_level, draws) ==
    [k \in 1..Len(f) |-> f[k] + (noise_level * Std(f) * draws[k]) \div NoiseScale]

\* C9: every field the estimator uses (u, v, ut, vt, p) is perturbed by
\* noise_level x the standard deviation of that same field x a standard-normal
\* draw, with one array of draws per field; p, whose deviation is not 0, does
\* not go on as it came when the noise level is not 0.
C9_OwnDeviation ==
    call.made =>
        /\ call.noisy[1] =
             C9_Perturbed(call.inputs.u, call.noise_level, call.draws[1])
        /\ call.noisy[2] =
             C9_Perturbed(call.inputs.v, call.noise_level, call.draws[2])
        /\ call.noisy[4] =
             C9_Perturbed(call.inputs.ut, call.noise_level, call.draws[3])
        /\ call.noisy[5] =
             C9_Perturbed(call.inputs.vt, call.noise_level, call.draws[4])
        /\ (call.noise_level > 0 /\ Std(call.inputs.p) > 0) =>
             call.noisy[3] # call.inputs.p

C10_SmoothedReached ==
    call.made /\ call.raised = "" /\ call.Z # call.Z0 /\ call.exc = ""
C10_PropagatedReached ==
    call.made /\ call.raised = "KeyboardInterrupt" /\ pc = "crashed"
====
